---------------------------- MODULE Spec2Model ----------------------------
(***************************************************************************)
(* NvapiAdapter (src/src/sysinfo/nvapi_adapter.cpp): Initialize as a       *)
(* sequential step machine (pc is the position inside Initialize), the     *)
(* adapter's data members as the persistent state, and the accessors as    *)
(* operators over that state.                                              *)
(*                                                                         *)
(* Number representation.  uint32_t values are records [hi, lo] of two     *)
(* 16-bit halves (value = hi * 65536 + lo) and VkDeviceSize values are     *)
(* four 16-bit limbs, so that 32-bit wrap-around and the 64 -> 32 bit      *)
(* narrowing are computed exactly.                                         *)
(***************************************************************************)
EXTENDS Integers, Sequences, FiniteSets, TLC

VARIABLES
    \* ---- NvapiAdapter data members
    m_deviceExtensions,
    m_deviceProperties,
    m_devicePciBusProperties,
    m_deviceDriverProperties,
    m_deviceFragmentShadingRateProperties,
    m_memoryProperties,
    m_vkDriverVersion,
    m_deviceIdOverride,
    m_subsystemIdOverride,
    m_driverVersionOverride,
    \* ---- the caller's output list and the process-wide module reference count
    outputs,
    libRefs,
    \* ---- Initialize's position, argument and locals
    pc,
    dxgiAdapter,
    vkModule,
    procs,
    count,
    extensions,
    chain,
    i,
    deviceId,
    subsystemId,
    driverVersion,
    retval,
    \* ---- what the last finished call returned, and bookkeeping of the run
    ret,
    calls,
    entryLen,
    log,
    nullCalled

adapterVars == <<m_deviceExtensions, m_deviceProperties, m_devicePciBusProperties,
                 m_deviceDriverProperties, m_deviceFragmentShadingRateProperties,
                 m_memoryProperties, m_vkDriverVersion, m_deviceIdOverride,
                 m_subsystemIdOverride, m_driverVersionOverride>>

snapshotVars == <<m_deviceExtensions, m_deviceProperties, m_devicePciBusProperties,
                  m_deviceDriverProperties, m_deviceFragmentShadingRateProperties,
                  m_memoryProperties, m_vkDriverVersion>>

overrideVars == <<m_deviceIdOverride, m_subsystemIdOverride, m_driverVersionOverride>>

envLocals == <<deviceId, subsystemId, driverVersion>>

vars == <<adapterVars, outputs, libRefs, pc, dxgiAdapter, vkModule, procs, count,
          extensions, chain, i, envLocals, retval, ret, calls, entryLen, log,
          nullCalled>>

-----------------------------------------------------------------------------
(* Bounds of the model. *)

\* Initialize calls made on the one adapter instance.
MaxCalls == 2

\* Displays an adapter may expose through EnumOutputs.
MaxDisplays == 2

-----------------------------------------------------------------------------
(* 32-bit and 64-bit unsigned arithmetic on 16-bit limbs. *)

U32(h, l) == [hi |-> h, lo |-> l]

Zero32 == U32(0, 0)

NonZero32(a) == a.hi # 0 \/ a.lo # 0

\* A natural number below 2^31 as a uint32_t.
FromNat(n) == U32(n \div 65536, n % 65536)

\* a + b modulo 2^32.
Add32(a, b) ==
    LET l == a.lo + b.lo
    IN  U32((a.hi + b.hi + (l \div 65536)) % 65536, l % 65536)

\* (a << 16) modulo 2^32.
Shl16(a) == U32(a.lo, 0)

Pow2(n) == 2 ^ n

\* a >> n for 0 <= n <= 16.
Shr32(a, n) ==
    U32(a.hi \div Pow2(n), (a.lo \div Pow2(n)) + (a.hi % Pow2(n)) * Pow2(16 - n))

\* A VkDeviceSize (uint64_t): limbs w3 (most significant) .. w0.
U64(l3, l2, l1, l0) == [w3 |-> l3, w2 |-> l2, w1 |-> l1, w0 |-> l0]

\* size / 1024 as a 64-bit value (the quotient is below 2^54).
Div1024(s) ==
    U64(s.w3 \div 1024,
        (s.w2 \div 1024) + (s.w3 % 1024) * 64,
        (s.w1 \div 1024) + (s.w2 % 1024) * 64,
        (s.w0 \div 1024) + (s.w1 % 1024) * 64)

\* The implicit uint64_t -> uint32_t conversion of a return statement.
Narrow32(q) == U32(q.w1, q.w0)

Min(a, b) == IF a < b THEN a ELSE b

-----------------------------------------------------------------------------
(* Vulkan's version macros (vulkan_core.h), on uint32_t values. *)

\* VK_VERSION_MAJOR(v) = v >> 22.
VK_VERSION_MAJOR(v) == v.hi \div 64

\* VK_VERSION_MINOR(v) = (v >> 12) & 0x3ff.
VK_VERSION_MINOR(v) == (v.hi % 64) * 16 + (v.lo \div 4096)

\* VK_VERSION_PATCH(v) = v & 0xfff.
VK_VERSION_PATCH(v) == v.lo % 4096

\* VK_MAKE_VERSION(major, minor, patch) = (major << 22) | (minor << 12) | patch,
\* for minor < 1024 and patch < 4096 (the bit fields do not overlap).
VK_MAKE_VERSION(major, minor, patch) ==
    U32((major % 1024) * 64 + (minor \div 16), (minor % 16) * 4096 + patch)

VK_DRIVER_ID_NVIDIA_PROPRIETARY == 4

-----------------------------------------------------------------------------
(* Device extension names tested by the adapter. *)

VK_EXT_PCI_BUS_INFO_EXTENSION_NAME == "VK_EXT_pci_bus_info"
VK_KHR_DRIVER_PROPERTIES_EXTENSION_NAME == "VK_KHR_driver_properties"
VK_KHR_FRAGMENT_SHADING_RATE_EXTENSION_NAME == "VK_KHR_fragment_shading_rate"
VK_NV_SHADING_RATE_IMAGE_EXTENSION_NAME == "VK_NV_shading_rate_image"
VK_NVX_IMAGE_VIEW_HANDLE_EXTENSION_NAME == "VK_NVX_image_view_handle"
VK_NV_CLIP_SPACE_W_SCALING_EXTENSION_NAME == "VK_NV_clip_space_w_scaling"
VK_NV_VIEWPORT_ARRAY2_EXTENSION_NAME == "VK_NV_viewport_array2"

-----------------------------------------------------------------------------
(* std::stoul on a string given as a sequence of characters.  The strings   *)
(* of the model hold decimal digits and letters only (no white space, no    *)
(* sign).  unsigned long is 32 bits wide: the code is built for Windows     *)
(* (LoadLibraryA, GetProcAddress).                                          *)

DigitChars == <<"0", "1", "2", "3", "4", "5", "6", "7", "8", "9">>

IsDigit(c) == \E k \in 1..10 : DigitChars[k] = c

DigitValue(c) == (CHOOSE k \in 1..10 : DigitChars[k] = c) - 1

\* acc * 10 + d, with the overflow past 2^32 - 1 reported.
Mul10Add(acc, d) ==
    LET l == acc.lo * 10 + d
        h == acc.hi * 10 + (l \div 65536)
    IN  [value |-> U32(h % 65536, l % 65536), overflow |-> h >= 65536]

\* The longest prefix of digits of s, from position k on.
RECURSIVE StoulFrom(_, _, _, _, _)
StoulFrom(s, k, acc, any, ovf) ==
    IF k > Len(s) \/ ~IsDigit(s[k])
    THEN [status |-> IF ~any THEN "invalid_argument"
                     ELSE IF ovf THEN "out_of_range" ELSE "ok",
          value |-> acc]
    ELSE LET r == Mul10Add(acc, DigitValue(s[k]))
         IN  StoulFrom(s, k + 1, r.value, TRUE, ovf \/ r.overflow)

stoul(s) == StoulFrom(s, 1, Zero32, FALSE, FALSE)

-----------------------------------------------------------------------------
(* The inputs of the model: physical devices as a Vulkan driver reports     *)
(* them, and values of the three environment variables.                     *)

Heap(s, local) == [size |-> s, deviceLocal |-> local]

\* NVIDIA GA102, driver 455.89 (vendor notation), all tested extensions.
Ampere ==
    [extensions |-> <<VK_EXT_PCI_BUS_INFO_EXTENSION_NAME,
                      VK_KHR_DRIVER_PROPERTIES_EXTENSION_NAME,
                      VK_KHR_FRAGMENT_SHADING_RATE_EXTENSION_NAME,
                      VK_NV_SHADING_RATE_IMAGE_EXTENSION_NAME,
                      VK_NVX_IMAGE_VIEW_HANDLE_EXTENSION_NAME,
                      VK_NV_CLIP_SPACE_W_SCALING_EXTENSION_NAME,
                      VK_NV_VIEWPORT_ARRAY2_EXTENSION_NAME>>,
     properties |-> [deviceID |-> U32(0, 8708), vendorID |-> U32(0, 4318),
                     driverVersion |-> U32(29142, 16384)],
     pciBus |-> 1,
     driverID |-> VK_DRIVER_ID_NVIDIA_PROPRIETARY,
     primitiveFragmentShadingRateWithMultipleViewports |-> TRUE,
     memoryHeaps |-> <<Heap(U64(0, 0, 4096, 0), FALSE),
                       Heap(U64(0, 2, 0, 0), TRUE),
                       Heap(U64(0, 0, 256, 0), FALSE)>>]

\* NVIDIA TU104, driver 470.62.2: VK_KHR_fragment_shading_rate without
\* primitiveFragmentShadingRateWithMultipleViewports, no PCI bus info.
Turing ==
    [extensions |-> <<VK_KHR_DRIVER_PROPERTIES_EXTENSION_NAME,
                      VK_KHR_FRAGMENT_SHADING_RATE_EXTENSION_NAME,
                      VK_NV_SHADING_RATE_IMAGE_EXTENSION_NAME,
                      VK_NVX_IMAGE_VIEW_HANDLE_EXTENSION_NAME,
                      VK_NV_CLIP_SPACE_W_SCALING_EXTENSION_NAME,
                      VK_NV_VIEWPORT_ARRAY2_EXTENSION_NAME>>,
     properties |-> [deviceID |-> U32(0, 7815), vendorID |-> U32(0, 4318),
                     driverVersion |-> U32(30095, 32896)],
     pciBus |-> 2,
     driverID |-> VK_DRIVER_ID_NVIDIA_PROPRIETARY,
     primitiveFragmentShadingRateWithMultipleViewports |-> FALSE,
     memoryHeaps |-> <<Heap(U64(0, 1, 32768, 0), TRUE),
                       Heap(U64(0, 0, 4096, 0), TRUE)>>]

\* NVIDIA GP104 (1b80-10de) on an old driver without VK_KHR_driver_properties.
Pascal ==
    [extensions |-> <<VK_NV_CLIP_SPACE_W_SCALING_EXTENSION_NAME,
                      VK_NV_VIEWPORT_ARRAY2_EXTENSION_NAME>>,
     properties |-> [deviceID |-> U32(0, 7040), vendorID |-> U32(0, 4318),
                     driverVersion |-> U32(29142, 16384)],
     pciBus |-> 3,
     driverID |-> VK_DRIVER_ID_NVIDIA_PROPRIETARY,
     primitiveFragmentShadingRateWithMultipleViewports |-> FALSE,
     memoryHeaps |-> <<Heap(U64(0, 0, 4096, 0), FALSE),
                       Heap(U64(0, 2, 0, 1023), TRUE)>>]

\* Mesa llvmpipe (vendor 0x10005, driver id 13) on a host with 4 TiB + 1.5 KiB
\* of memory, all of it one device-local heap.
Llvmpipe ==
    [extensions |-> <<VK_KHR_DRIVER_PROPERTIES_EXTENSION_NAME>>,
     properties |-> [deviceID |-> U32(0, 0), vendorID |-> U32(1, 5),
                     driverVersion |-> U32(1344, 8192)],
     pciBus |-> 0,
     driverID |-> 13,
     primitiveFragmentShadingRateWithMultipleViewports |-> FALSE,
     memoryHeaps |-> <<Heap(U64(0, 1024, 0, 1536), TRUE)>>]

Devices == {Ampere, Turing, Pascal, Llvmpipe}

\* The adapters passed to Initialize: whether QueryInterface for
\* IDXGIVkInteropAdapter succeeds, the physical device GetVulkanHandles yields
\* and the number of displays EnumOutputs enumerates.
Adapters ==
    [interop : BOOLEAN, vkDevice : Devices, nOutputs : 0..MaxDisplays]

NoAdapter == [interop |-> FALSE, vkDevice |-> Pascal, nOutputs |-> 0]

\* Values of an environment variable; the empty string is an absent or empty
\* variable (env::getEnvVariable returns "" for both).
Absent == <<>>

DeviceIdEnvValues ==
    {Absent, <<"0">>, <<"4", "6", "1", "3", "7", "7", "7", "5", "8">>,
     <<"x">>, <<"4", "2", "9", "4", "9", "6", "7", "2", "9", "6">>}

SubsystemIdEnvValues ==
    {Absent, <<"0">>, <<"9", "2", "0", "5", "8", "9", "4", "0", "0">>,
     <<"x">>, <<"4", "2", "9", "4", "9", "6", "7", "2", "9", "6">>}

DriverVersionEnvValues ==
    {Absent, <<"0">>, <<"4", "5", "5", "8", "9">>,
     <<"x">>, <<"4", "2", "9", "4", "9", "6", "7", "2", "9", "6">>}

-----------------------------------------------------------------------------
(* The accessors, as functions of the adapter's members. *)

isVkDeviceExtensionSupported(name) == name \in m_deviceExtensions

GetDriverId == m_deviceDriverProperties.driverID

GetDriverVersion ==
    IF NonZero32(m_driverVersionOverride)
    THEN m_driverVersionOverride
    ELSE FromNat(VK_VERSION_MAJOR(m_vkDriverVersion) * 100
                 + Min(VK_VERSION_MINOR(m_vkDriverVersion), 99))

GetDeviceId ==
    IF NonZero32(m_deviceIdOverride)
    THEN m_deviceIdOverride
    ELSE Add32(Shl16(m_deviceProperties.deviceID), m_deviceProperties.vendorID)

GetSubsystemId == m_subsystemIdOverride

GetBusId == m_devicePciBusProperties.pciBus

\* The loop of GetVRamSize from heap index k on.
RECURSIVE VRamFrom(_, _)
VRamFrom(heaps, k) ==
    IF k > Len(heaps) THEN Zero32
    ELSE IF heaps[k].deviceLocal THEN Narrow32(Div1024(heaps[k].size))
    ELSE VRamFrom(heaps, k + 1)

GetVRamSize == VRamFrom(m_memoryProperties.memoryHeaps, 1)

\* Faulty variant: the ladder tests the Turing indicator before the Ampere one.
GetArchitectureId_TuringFirst ==
    IF isVkDeviceExtensionSupported(VK_NV_SHADING_RATE_IMAGE_EXTENSION_NAME)
    THEN "NV_GPU_ARCHITECTURE_TU100"
    ELSE IF isVkDeviceExtensionSupported(VK_KHR_FRAGMENT_SHADING_RATE_EXTENSION_NAME)
            /\ m_deviceFragmentShadingRateProperties.primitiveFragmentShadingRateWithMultipleViewports
    THEN "NV_GPU_ARCHITECTURE_GA100"
    ELSE IF isVkDeviceExtensionSupported(VK_NVX_IMAGE_VIEW_HANDLE_EXTENSION_NAME)
    THEN "NV_GPU_ARCHITECTURE_GV100"
    ELSE IF isVkDeviceExtensionSupported(VK_NV_CLIP_SPACE_W_SCALING_EXTENSION_NAME)
    THEN "NV_GPU_ARCHITECTURE_GP100"
    ELSE IF isVkDeviceExtensionSupported(VK_NV_VIEWPORT_ARRAY2_EXTENSION_NAME)
    THEN "NV_GPU_ARCHITECTURE_GM200"
    ELSE "NV_GPU_ARCHITECTURE_GK100"

GetArchitectureId ==
    IF isVkDeviceExtensionSupported(VK_KHR_FRAGMENT_SHADING_RATE_EXTENSION_NAME)
       /\ m_deviceFragmentShadingRateProperties.primitiveFragmentShadingRateWithMultipleViewports
    THEN "NV_GPU_ARCHITECTURE_GA100"
    ELSE IF isVkDeviceExtensionSupported(VK_NV_SHADING_RATE_IMAGE_EXTENSION_NAME)
    THEN "NV_GPU_ARCHITECTURE_TU100"
    ELSE IF isVkDeviceExtensionSupported(VK_NVX_IMAGE_VIEW_HANDLE_EXTENSION_NAME)
    THEN "NV_GPU_ARCHITECTURE_GV100"
    ELSE IF isVkDeviceExtensionSupported(VK_NV_CLIP_SPACE_W_SCALING_EXTENSION_NAME)
    THEN "NV_GPU_ARCHITECTURE_GP100"
    ELSE IF isVkDeviceExtensionSupported(VK_NV_VIEWPORT_ARRAY2_EXTENSION_NAME)
    THEN "NV_GPU_ARCHITECTURE_GM200"
    ELSE "NV_GPU_ARCHITECTURE_GK100"

-----------------------------------------------------------------------------
(* The state after construction: every member value-initialised. *)

NoProcs ==
    [vkGetInstanceProcAddr |-> "unset",
     vkEnumerateDeviceExtensionProperties |-> "unset",
     vkGetPhysicalDeviceProperties2 |-> "unset",
     vkGetPhysicalDeviceMemoryProperties2 |-> "unset"]

\* Initialize's locals outside a call.
LocalsReset ==
    /\ dxgiAdapter' = NoAdapter
    /\ vkModule' = "null"
    /\ procs' = NoProcs
    /\ count' = 0
    /\ extensions' = <<>>
    /\ chain' = <<>>
    /\ i' = 0
    /\ deviceId' = <<>>
    /\ subsystemId' = <<>>
    /\ driverVersion' = <<>>
    /\ retval' = "unset"
    /\ entryLen' = 0
    /\ log' = <<>>

Init ==
    /\ m_deviceExtensions = {}
    /\ m_deviceProperties =
           [deviceID |-> Zero32, vendorID |-> Zero32, driverVersion |-> Zero32]
    /\ m_devicePciBusProperties = [pciBus |-> 0]
    /\ m_deviceDriverProperties = [driverID |-> 0]
    /\ m_deviceFragmentShadingRateProperties =
           [primitiveFragmentShadingRateWithMultipleViewports |-> FALSE]
    /\ m_memoryProperties = [memoryHeaps |-> <<>>]
    /\ m_vkDriverVersion = Zero32
    /\ m_deviceIdOverride = Zero32
    /\ m_subsystemIdOverride = Zero32
    /\ m_driverVersionOverride = Zero32
    /\ outputs = <<>>
    /\ libRefs = 0
    /\ pc = "idle"
    /\ dxgiAdapter = NoAdapter
    /\ vkModule = "null"
    /\ procs = NoProcs
    /\ count = 0
    /\ extensions = <<>>
    /\ chain = <<>>
    /\ i = 0
    /\ deviceId = <<>>
    /\ subsystemId = <<>>
    /\ driverVersion = <<>>
    /\ retval = "unset"
    /\ ret = "none"
    /\ calls = 0
    /\ entryLen = 0
    /\ log = <<>>
    /\ nullCalled = FALSE

-----------------------------------------------------------------------------
(* Initialize, step by step. *)

\* A step that only moves on: everything but pc unchanged.
Goto(next) ==
    /\ pc' = next
    /\ UNCHANGED <<adapterVars, outputs, libRefs, dxgiAdapter, vkModule, procs, count,
                   extensions, chain, i, envLocals, retval, ret, calls, entryLen,
                   log, nullCalled>>

\* "return false;"
ReturnFalse ==
    /\ pc' = "Return"
    /\ retval' = "false"
    /\ UNCHANGED <<adapterVars, outputs, libRefs, dxgiAdapter, vkModule, procs, count,
                   extensions, chain, i, envLocals, ret, calls, entryLen, log,
                   nullCalled>>

\* A call through a null function pointer: undefined behaviour, which on the
\* targets of this code is an access violation at address 0; Initialize does
\* not continue and does not return.
NullCall(pointers) ==
    /\ procs' = pointers
    /\ pc' = "Fault"
    /\ nullCalled' = TRUE
    /\ UNCHANGED <<adapterVars, outputs, libRefs, dxgiAdapter, vkModule, count,
                   extensions, chain, i, envLocals, retval, ret, calls, entryLen, log>>

\* The caller enters Initialize(dxgiAdapter, outputs).
Initialize ==
    /\ pc = "idle"
    /\ calls < MaxCalls
    /\ \E a \in Adapters : dxgiAdapter' = a
    /\ pc' = "QueryInterface"
    /\ calls' = calls + 1
    /\ ret' = "pending"
    /\ entryLen' = Len(outputs)
    /\ UNCHANGED <<adapterVars, outputs, libRefs, vkModule, procs, count, extensions,
                   chain, i, envLocals, retval, log, nullCalled>>

QueryInterfaceFailed ==
    /\ pc = "QueryInterface"
    /\ ~dxgiAdapter.interop
    /\ ReturnFalse

QueryInterfaceOk ==
    /\ pc = "QueryInterface"
    /\ dxgiAdapter.interop
    /\ Goto("LoadLibrary")

LoadLibraryFailed ==
    /\ pc = "LoadLibrary"
    /\ ReturnFalse

LoadLibraryOk ==
    /\ pc = "LoadLibrary"
    /\ vkModule' = "vulkan-1.dll"
    /\ libRefs' = libRefs + 1
    /\ pc' = "GetProcAddress"
    /\ UNCHANGED <<adapterVars, outputs, dxgiAdapter, procs, count, extensions, chain,
                   i, envLocals, retval, ret, calls, entryLen, log, nullCalled>>

\* The two GetProcAddress calls (either may yield null) and GetVulkanHandles.
GetProcAddress ==
    /\ pc = "GetProcAddress"
    /\ \E a, b \in {"null", "resolved"} :
           procs' = [procs EXCEPT !.vkGetInstanceProcAddr = a,
                                  !.vkEnumerateDeviceExtensionProperties = b]
    /\ pc' = "EnumerateCount"
    /\ UNCHANGED <<adapterVars, outputs, libRefs, dxgiAdapter, vkModule, count,
                   extensions, chain, i, envLocals, retval, ret, calls, entryLen,
                   log, nullCalled>>

EnumerateCountNull ==
    /\ pc = "EnumerateCount"
    /\ procs.vkEnumerateDeviceExtensionProperties = "null"
    /\ NullCall(procs)

EnumerateCountFailed ==
    /\ pc = "EnumerateCount"
    /\ procs.vkEnumerateDeviceExtensionProperties = "resolved"
    /\ ReturnFalse

EnumerateCountOk ==
    /\ pc = "EnumerateCount"
    /\ procs.vkEnumerateDeviceExtensionProperties = "resolved"
    /\ count' = Len(dxgiAdapter.vkDevice.extensions)
    /\ pc' = "EnumerateList"
    /\ UNCHANGED <<adapterVars, outputs, libRefs, dxgiAdapter, vkModule, procs,
                   extensions, chain, i, envLocals, retval, ret, calls, entryLen,
                   log, nullCalled>>

\* Faulty variant: the names are stored before the second call's status is tested.
EnumerateListFailed_StoresNames ==
    /\ pc = "EnumerateList"
    /\ m_deviceExtensions' =
           m_deviceExtensions \cup
               {dxgiAdapter.vkDevice.extensions[k] : k \in 1..count}
    /\ pc' = "Return"
    /\ retval' = "false"
    /\ UNCHANGED <<m_deviceProperties, m_devicePciBusProperties,
                   m_deviceDriverProperties, m_deviceFragmentShadingRateProperties,
                   m_memoryProperties, m_vkDriverVersion, overrideVars, outputs,
                   libRefs, dxgiAdapter, vkModule, procs, count, extensions, chain, i,
                   envLocals, ret, calls, entryLen, log, nullCalled>>

\* The second call reports VK_INCOMPLETE or an error.
EnumerateListFailed ==
    /\ pc = "EnumerateList"
    /\ ReturnFalse

EnumerateListOk ==
    /\ pc = "EnumerateList"
    /\ extensions' = SubSeq(dxgiAdapter.vkDevice.extensions, 1, count)
    /\ pc' = "InsertExtensions"
    /\ UNCHANGED <<adapterVars, outputs, libRefs, dxgiAdapter, vkModule, procs, count,
                   chain, i, envLocals, retval, ret, calls, entryLen, log, nullCalled>>

\* std::set::insert of the names exts[k..], one by one.
RECURSIVE InsertFrom(_, _, _)
InsertFrom(set, exts, k) ==
    IF k > Len(exts) THEN set
    ELSE InsertFrom(set \cup {exts[k]}, exts, k + 1)

\* Faulty variant: the set is rebuilt from the enumerated names alone.
InsertedExtensions_Replaced == InsertFrom({}, extensions, 1)

InsertedExtensions == InsertFrom(m_deviceExtensions, extensions, 1)

InsertExtensions ==
    /\ pc = "InsertExtensions"
    /\ m_deviceExtensions' = InsertedExtensions
    /\ log' = Append(log, "InsertExtensions")
    /\ pc' = "BuildChain"
    /\ UNCHANGED <<m_deviceProperties, m_devicePciBusProperties,
                   m_deviceDriverProperties, m_deviceFragmentShadingRateProperties,
                   m_memoryProperties, m_vkDriverVersion, overrideVars, outputs,
                   libRefs, dxgiAdapter, vkModule, procs, count, extensions, chain, i,
                   envLocals, retval, ret, calls, entryLen, nullCalled>>

\* "s.pNext = head; head = &s" when the extension is supported.
Attach(head, name, struct) ==
    IF isVkDeviceExtensionSupported(name) THEN <<struct>> \o head ELSE head

\* Faulty variant: m_deviceDriverProperties is chained without the support test.
BuiltChain_DriverPropertiesUnconditional ==
    <<"m_deviceIdProperties">> \o
        Attach(<<"m_deviceDriverProperties">> \o
                   Attach(<<>>,
                          VK_EXT_PCI_BUS_INFO_EXTENSION_NAME,
                          "m_devicePciBusProperties"),
               VK_KHR_FRAGMENT_SHADING_RATE_EXTENSION_NAME,
               "m_deviceFragmentShadingRateProperties")

\* The pNext chain of deviceProperties2, head first.
BuiltChain ==
    <<"m_deviceIdProperties">> \o
        Attach(Attach(Attach(<<>>,
                             VK_EXT_PCI_BUS_INFO_EXTENSION_NAME,
                             "m_devicePciBusProperties"),
                      VK_KHR_DRIVER_PROPERTIES_EXTENSION_NAME,
                      "m_deviceDriverProperties"),
               VK_KHR_FRAGMENT_SHADING_RATE_EXTENSION_NAME,
               "m_deviceFragmentShadingRateProperties")

BuildChain ==
    /\ pc = "BuildChain"
    /\ chain' = BuiltChain
    /\ log' = Append(log, "BuildChain")
    /\ pc' = "GetProperties2"
    /\ UNCHANGED <<adapterVars, outputs, libRefs, dxgiAdapter, vkModule, procs, count,
                   extensions, i, envLocals, retval, ret, calls, entryLen, nullCalled>>

InChain(struct) == \E k \in 1..Len(chain) : chain[k] = struct

DeviceSupports(name) ==
    \E k \in 1..Len(dxgiAdapter.vkDevice.extensions) :
        dxgiAdapter.vkDevice.extensions[k] = name

\* The driver writes a chained structure of an extension it implements and
\* skips, unread but for sType and pNext, any other structure of the chain
\* (one left in m_deviceExtensions by an earlier Initialize on another device).
Filled(struct, name) == InChain(struct) /\ DeviceSupports(name)

\* vkGetInstanceProcAddr itself is null.
GetProperties2NullLoader ==
    /\ pc = "GetProperties2"
    /\ procs.vkGetInstanceProcAddr = "null"
    /\ NullCall(procs)

\* vkGetInstanceProcAddr yields null for vkGetPhysicalDeviceProperties2
\* (an instance without Vulkan 1.1), and the null pointer is called.
GetProperties2Unresolved ==
    /\ pc = "GetProperties2"
    /\ procs.vkGetInstanceProcAddr = "resolved"
    /\ NullCall([procs EXCEPT !.vkGetPhysicalDeviceProperties2 = "null"])

GetProperties2Ok ==
    /\ pc = "GetProperties2"
    /\ procs.vkGetInstanceProcAddr = "resolved"
    /\ procs' = [procs EXCEPT !.vkGetPhysicalDeviceProperties2 = "resolved"]
    /\ m_deviceProperties' = dxgiAdapter.vkDevice.properties
    /\ m_devicePciBusProperties' =
           IF Filled("m_devicePciBusProperties", VK_EXT_PCI_BUS_INFO_EXTENSION_NAME)
           THEN [pciBus |-> dxgiAdapter.vkDevice.pciBus]
           ELSE m_devicePciBusProperties
    /\ m_deviceDriverProperties' =
           IF Filled("m_deviceDriverProperties", VK_KHR_DRIVER_PROPERTIES_EXTENSION_NAME)
           THEN [driverID |-> dxgiAdapter.vkDevice.driverID]
           ELSE m_deviceDriverProperties
    /\ m_deviceFragmentShadingRateProperties' =
           IF Filled("m_deviceFragmentShadingRateProperties",
                     VK_KHR_FRAGMENT_SHADING_RATE_EXTENSION_NAME)
           THEN [primitiveFragmentShadingRateWithMultipleViewports |->
                     dxgiAdapter.vkDevice.primitiveFragmentShadingRateWithMultipleViewports]
           ELSE m_deviceFragmentShadingRateProperties
    /\ log' = Append(log, "GetProperties2")
    /\ pc' = "GetMemoryProperties2"
    /\ UNCHANGED <<m_deviceExtensions, m_memoryProperties, m_vkDriverVersion,
                   overrideVars, outputs, libRefs, dxgiAdapter, vkModule, count,
                   extensions, chain, i, envLocals, retval, ret, calls, entryLen,
                   nullCalled>>

\* vkGetInstanceProcAddr yields null for vkGetPhysicalDeviceMemoryProperties2.
GetMemoryProperties2Unresolved ==
    /\ pc = "GetMemoryProperties2"
    /\ NullCall([procs EXCEPT !.vkGetPhysicalDeviceMemoryProperties2 = "null"])

GetMemoryProperties2Ok ==
    /\ pc = "GetMemoryProperties2"
    /\ procs' = [procs EXCEPT !.vkGetPhysicalDeviceMemoryProperties2 = "resolved"]
    /\ m_memoryProperties' = [memoryHeaps |-> dxgiAdapter.vkDevice.memoryHeaps]
    /\ log' = Append(log, "GetMemoryProperties2")
    /\ pc' = "NormalizeDriverVersion"
    /\ UNCHANGED <<m_deviceExtensions, m_deviceProperties, m_devicePciBusProperties,
                   m_deviceDriverProperties, m_deviceFragmentShadingRateProperties,
                   m_vkDriverVersion, overrideVars, outputs, libRefs, dxgiAdapter,
                   vkModule, count, extensions, chain, i, envLocals, retval, ret,
                   calls, entryLen, nullCalled>>

\* Faulty variant: the minor field is taken in Vulkan's position (no ">> 2").
NvidiaVersion_MinorNotShifted(v) ==
    VK_MAKE_VERSION(VK_VERSION_MAJOR(v),
                    VK_VERSION_MINOR(Shr32(v, 0)),
                    VK_VERSION_PATCH(Shr32(v, 2)) \div 16)

\* The NVIDIA notation re-packed in Vulkan's layout.
NvidiaVersion(v) ==
    VK_MAKE_VERSION(VK_VERSION_MAJOR(v),
                    VK_VERSION_MINOR(Shr32(v, 0)) \div 4,
                    VK_VERSION_PATCH(Shr32(v, 2)) \div 16)

NormalizedVersion ==
    IF GetDriverId = VK_DRIVER_ID_NVIDIA_PROPRIETARY
    THEN NvidiaVersion(m_deviceProperties.driverVersion)
    ELSE m_deviceProperties.driverVersion

NormalizeDriverVersion ==
    /\ pc = "NormalizeDriverVersion"
    /\ m_vkDriverVersion' = NormalizedVersion
    /\ pc' = "EnumOutputs"
    /\ UNCHANGED <<m_deviceExtensions, m_deviceProperties, m_devicePciBusProperties,
                   m_deviceDriverProperties, m_deviceFragmentShadingRateProperties,
                   m_memoryProperties, overrideVars, outputs, libRefs, dxgiAdapter,
                   vkModule, procs, count, extensions, chain, i, envLocals, retval,
                   ret, calls, entryLen, log, nullCalled>>

\* IDXGIAdapter::EnumOutputs(index): S_OK for a display of the adapter,
\* DXGI_ERROR_NOT_FOUND past the last one.
EnumOutputsResult(index) ==
    IF index < dxgiAdapter.nOutputs THEN "S_OK" ELSE "DXGI_ERROR_NOT_FOUND"

\* One iteration of the loop: an NvapiOutput for display i is appended.
EnumOutputsNext ==
    /\ pc = "EnumOutputs"
    /\ EnumOutputsResult(i) # "DXGI_ERROR_NOT_FOUND"
    /\ outputs' = Append(outputs, i)
    /\ i' = i + 1
    /\ UNCHANGED <<adapterVars, libRefs, pc, dxgiAdapter, vkModule, procs, count,
                   extensions, chain, envLocals, retval, ret, calls, entryLen, log,
                   nullCalled>>

\* Faulty variant: the body also runs for the exhausted index.
EnumOutputsDone_AppendsLast ==
    /\ pc = "EnumOutputs"
    /\ EnumOutputsResult(i) = "DXGI_ERROR_NOT_FOUND"
    /\ outputs' = Append(outputs, i)
    /\ pc' = "FreeLibrary"
    /\ UNCHANGED <<adapterVars, libRefs, dxgiAdapter, vkModule, procs, count,
                   extensions, chain, i, envLocals, retval, ret, calls, entryLen, log,
                   nullCalled>>

EnumOutputsDone ==
    /\ pc = "EnumOutputs"
    /\ EnumOutputsResult(i) = "DXGI_ERROR_NOT_FOUND"
    /\ Goto("FreeLibrary")

FreeLibrary ==
    /\ pc = "FreeLibrary"
    /\ libRefs' = libRefs - 1
    /\ pc' = "DeviceIdOverride"
    /\ UNCHANGED <<adapterVars, outputs, dxgiAdapter, vkModule, procs, count,
                   extensions, chain, i, envLocals, retval, ret, calls, entryLen, log,
                   nullCalled>>

\* std::stoul throws std::invalid_argument or std::out_of_range.
Throws(str) == str # <<>> /\ stoul(str).status # "ok"

\* Faulty variant: the parsed value is logged but never assigned.
OverrideValue_NotAssigned(old, str) == old

\* "if (!str.empty()) override = stoul(str);"
OverrideValue(old, str) == IF str = <<>> THEN old ELSE stoul(str).value

DeviceIdOverride ==
    /\ pc = "DeviceIdOverride"
    /\ \E str \in DeviceIdEnvValues :
           /\ deviceId' = str
           /\ IF Throws(str)
              THEN pc' = "Thrown" /\ UNCHANGED <<m_deviceIdOverride, log>>
              ELSE /\ m_deviceIdOverride' = OverrideValue(m_deviceIdOverride, str)
                   /\ log' = Append(log, "DeviceIdOverride")
                   /\ pc' = "SubsystemIdOverride"
    /\ UNCHANGED <<snapshotVars, m_subsystemIdOverride, m_driverVersionOverride,
                   outputs, libRefs, dxgiAdapter, vkModule, procs, count, extensions,
                   chain, i, subsystemId, driverVersion, retval, ret, calls, entryLen,
                   nullCalled>>

SubsystemIdOverride ==
    /\ pc = "SubsystemIdOverride"
    /\ \E str \in SubsystemIdEnvValues :
           /\ subsystemId' = str
           /\ IF Throws(str)
              THEN pc' = "Thrown" /\ UNCHANGED <<m_subsystemIdOverride, log>>
              ELSE /\ m_subsystemIdOverride' = OverrideValue(m_subsystemIdOverride, str)
                   /\ log' = Append(log, "SubsystemIdOverride")
                   /\ pc' = "DriverVersionOverride"
    /\ UNCHANGED <<snapshotVars, m_deviceIdOverride, m_driverVersionOverride,
                   outputs, libRefs, dxgiAdapter, vkModule, procs, count, extensions,
                   chain, i, deviceId, driverVersion, retval, ret, calls, entryLen,
                   nullCalled>>

DriverVersionOverride ==
    /\ pc = "DriverVersionOverride"
    /\ \E str \in DriverVersionEnvValues :
           /\ driverVersion' = str
           /\ IF Throws(str)
              THEN pc' = "Thrown" /\ UNCHANGED <<m_driverVersionOverride, log, retval>>
              ELSE /\ m_driverVersionOverride' =
                          OverrideValue(m_driverVersionOverride, str)
                   /\ log' = Append(log, "DriverVersionOverride")
                   /\ retval' = "true"
                   /\ pc' = "Return"
    /\ UNCHANGED <<snapshotVars, m_deviceIdOverride, m_subsystemIdOverride,
                   outputs, libRefs, dxgiAdapter, vkModule, procs, count, extensions,
                   chain, i, deviceId, subsystemId, ret, calls, entryLen, nullCalled>>

\* Control is back in the caller: the locals are gone, the members, the
\* output list and the module reference count stay.
Return ==
    /\ pc = "Return"
    /\ ret' = retval
    /\ pc' = "idle"
    /\ LocalsReset
    /\ UNCHANGED <<adapterVars, outputs, libRefs, calls, nullCalled>>

Next ==
    \/ Initialize
    \/ QueryInterfaceFailed
    \/ QueryInterfaceOk
    \/ LoadLibraryFailed
    \/ LoadLibraryOk
    \/ GetProcAddress
    \/ EnumerateCountNull
    \/ EnumerateCountFailed
    \/ EnumerateCountOk
    \/ EnumerateListFailed
    \/ EnumerateListOk
    \/ InsertExtensions
    \/ BuildChain
    \/ GetProperties2NullLoader
    \/ GetProperties2Unresolved
    \/ GetProperties2Ok
    \/ GetMemoryProperties2Unresolved
    \/ GetMemoryProperties2Ok
    \/ NormalizeDriverVersion
    \/ EnumOutputsNext
    \/ EnumOutputsDone
    \/ FreeLibrary
    \/ DeviceIdOverride
    \/ SubsystemIdOverride
    \/ DriverVersionOverride
    \/ Return

Spec == Init /\ [][Next]_vars

\* Initialize is one synchronous call: once entered it runs to its end.
FairSpec == Spec /\ WF_vars(Next)

-----------------------------------------------------------------------------
(* Vocabulary of the properties. *)

MembersAtDefault ==
    /\ m_deviceExtensions = {}
    /\ m_deviceProperties =
           [deviceID |-> Zero32, vendorID |-> Zero32, driverVersion |-> Zero32]
    /\ m_devicePciBusProperties = [pciBus |-> 0]
    /\ m_deviceDriverProperties = [driverID |-> 0]
    /\ m_deviceFragmentShadingRateProperties =
           [primitiveFragmentShadingRateWithMultipleViewports |-> FALSE]
    /\ m_memoryProperties = [memoryHeaps |-> <<>>]
    /\ m_vkDriverVersion = Zero32
    /\ m_deviceIdOverride = Zero32
    /\ m_subsystemIdOverride = Zero32
    /\ m_driverVersionOverride = Zero32

ReturningFalse == pc = "Return" /\ retval = "false"

ReturningTrue == pc = "Return" /\ retval = "true"

Range(seq) == {seq[k] : k \in 1..Len(seq)}

\* The string is a decimal unsigned integer that fits unsigned long and is not 0.
NonZeroUInt(str) ==
    /\ str # <<>>
    /\ \A k \in 1..Len(str) : IsDigit(str[k])
    /\ stoul(str).status = "ok"
    /\ NonZero32(stoul(str).value)

\* Bits shift .. shift + width - 1 of a uint32_t, as a number.
Bits(v, shift, width) ==
    IF shift >= 16
    THEN (v.hi \div (2 ^ (shift - 16))) % (2 ^ width)
    ELSE LET fromHi == IF shift + width > 16 THEN shift + width - 16 ELSE 0
         IN  ((v.hi % (2 ^ fromHi)) * (2 ^ (16 - shift)) + (v.lo \div (2 ^ shift)))
                 % (2 ^ width)

\* (deviceID << 16) + vendorID in 32 bits, limb by limb.
PackedDeviceId ==
    U32((m_deviceProperties.deviceID.lo + m_deviceProperties.vendorID.hi) % 65536,
        m_deviceProperties.vendorID.lo)

\* major * 100 + min(minor, 99) of a version in Vulkan's layout.
ReportedVersion(v) ==
    LET minor == Bits(v, 12, 10)
    IN  FromNat(Bits(v, 22, 10) * 100 + (IF minor > 99 THEN 99 ELSE minor))

-----------------------------------------------------------------------------
(* C1 *)

\* C1: when the first Initialize on a freshly constructed adapter returns false,
\* nothing has been appended to the caller's output list and every member
\* (extension set, device and memory properties, driver version, the three
\* overrides) still has its default value.
C1_FailedInitializeChangesNothing ==
    (calls = 1 /\ (ReturningFalse \/ (pc = "idle" /\ ret = "false")))
        => (outputs = <<>> /\ MembersAtDefault)

\* The latest failure: the second extension enumeration call reports non-success,
\* after the library was loaded and the count was read.
C1_Witness ==
    /\ calls = 1
    /\ ReturningFalse
    /\ vkModule = "vulkan-1.dll"
    /\ count > 0
    /\ outputs = <<>>
    /\ MembersAtDefault

-----------------------------------------------------------------------------
(* C2 *)

\* C2: Initialize never calls through an unresolved (null) entry point: when the
\* library or a required entry point is missing it returns false instead.
C2_NoNullEntryPointCall ==
    /\ ~nullCalled
    /\ pc # "Fault"

-----------------------------------------------------------------------------
(* C3 *)

\* C3: whenever Initialize has returned, every library reference it acquired has
\* been released: no run of Initialize ends with the library still held.
C3_LibraryReleasedOnReturn ==
    (pc \in {"Return", "idle"}) => libRefs = 0

-----------------------------------------------------------------------------
(* C4 *)

\* C4 as stated: at the end of a successful Initialize, an override variable set
\* to a non-zero unsigned integer makes its accessor return that value, and an
\* absent or empty variable makes GetDeviceId return (deviceID << 16) + vendorID,
\* GetDriverVersion the snapshot-derived version and GetSubsystemId 0.
C4_AbsentVariableMeansComputedValue ==
    ReturningTrue =>
        /\ NonZeroUInt(deviceId) => GetDeviceId = stoul(deviceId).value
        /\ NonZeroUInt(subsystemId) => GetSubsystemId = stoul(subsystemId).value
        /\ NonZeroUInt(driverVersion) => GetDriverVersion = stoul(driverVersion).value
        /\ deviceId = Absent => GetDeviceId = PackedDeviceId
        /\ subsystemId = Absent => GetSubsystemId = Zero32
        /\ driverVersion = Absent => GetDriverVersion = ReportedVersion(m_vkDriverVersion)

\* C4 amended: at the end of a successful Initialize, an override variable set to
\* a non-zero unsigned integer that fits 32 bits makes its accessor return exactly
\* that value; an absent or empty variable at the first Initialize of the adapter
\* makes GetDeviceId return (deviceID << 16) + vendorID in 32 bits,
\* GetDriverVersion the snapshot-derived version and GetSubsystemId 0.
C4_OverrideOrComputedOnFirstInitialize ==
    ReturningTrue =>
        /\ NonZeroUInt(deviceId) => GetDeviceId = stoul(deviceId).value
        /\ NonZeroUInt(subsystemId) => GetSubsystemId = stoul(subsystemId).value
        /\ NonZeroUInt(driverVersion) => GetDriverVersion = stoul(driverVersion).value
        /\ (calls = 1 /\ deviceId = Absent) => GetDeviceId = PackedDeviceId
        /\ (calls = 1 /\ subsystemId = Absent) => GetSubsystemId = Zero32
        /\ (calls = 1 /\ driverVersion = Absent)
               => GetDriverVersion = ReportedVersion(m_vkDriverVersion)

\* DXVK_NVAPI_DEVICE_ID=461377758 on an adapter whose device is not 1b80-10de,
\* the other two variables absent, first Initialize.
C4_Witness ==
    /\ ReturningTrue
    /\ calls = 1
    /\ deviceId = <<"4", "6", "1", "3", "7", "7", "7", "5", "8">>
    /\ GetDeviceId = U32(7040, 4318)
    /\ PackedDeviceId # U32(7040, 4318)
    /\ subsystemId = Absent
    /\ GetSubsystemId = Zero32
    /\ driverVersion = Absent
    /\ GetDriverVersion = FromNat(45589)

-----------------------------------------------------------------------------
(* C5 *)

\* C5 as stated: after a successful Initialize, VK_KHR_fragment_shading_rate in
\* the extension set makes GetArchitectureId return GA100.
C5_ExtensionAloneMeansAmpere ==
    (pc = "idle" /\ ret = "true"
     /\ VK_KHR_FRAGMENT_SHADING_RATE_EXTENSION_NAME \in m_deviceExtensions)
        => GetArchitectureId = "NV_GPU_ARCHITECTURE_GA100"

\* C5 amended: if VK_KHR_fragment_shading_rate is in the extension set and the
\* device reports primitiveFragmentShadingRateWithMultipleViewports, then
\* GetArchitectureId returns GA100 whichever older indicators are present.
C5_ExtensionAndCapabilityMeanAmpere ==
    (/\ VK_KHR_FRAGMENT_SHADING_RATE_EXTENSION_NAME \in m_deviceExtensions
     /\ m_deviceFragmentShadingRateProperties.primitiveFragmentShadingRateWithMultipleViewports)
        => GetArchitectureId = "NV_GPU_ARCHITECTURE_GA100"

\* Ampere after a successful Initialize: every older indicator is present too.
C5_Witness ==
    /\ pc = "idle"
    /\ ret = "true"
    /\ {VK_KHR_FRAGMENT_SHADING_RATE_EXTENSION_NAME,
        VK_NV_SHADING_RATE_IMAGE_EXTENSION_NAME,
        VK_NVX_IMAGE_VIEW_HANDLE_EXTENSION_NAME,
        VK_NV_CLIP_SPACE_W_SCALING_EXTENSION_NAME,
        VK_NV_VIEWPORT_ARRAY2_EXTENSION_NAME} \subseteq m_deviceExtensions
    /\ m_deviceFragmentShadingRateProperties.primitiveFragmentShadingRateWithMultipleViewports
    /\ GetArchitectureId = "NV_GPU_ARCHITECTURE_GA100"

-----------------------------------------------------------------------------
(* C6 *)

\* m_vkDriverVersion has been computed from the current snapshot.
VersionNormalized ==
    \/ pc \in {"EnumOutputs", "FreeLibrary", "DeviceIdOverride", "SubsystemIdOverride",
               "DriverVersionOverride", "Thrown"}
    \/ ReturningTrue
    \/ (pc = "idle" /\ ret = "true")

\* C6: for the NVIDIA proprietary driver the raw version V is decoded as
\* major = V >> 22, minor = (V >> 14) mod 256, patch = (V >> 6) mod 256 and
\* re-packed in Vulkan's layout (10, 10 and 12 bits); for any other driver V is
\* kept.  With no driver-version override GetDriverVersion returns
\* major * 100 + min(minor, 99) of that normalised version.
C6_DriverVersionNormalization ==
    VersionNormalized =>
        LET V == m_deviceProperties.driverVersion
            N == m_vkDriverVersion
            nvidia == m_deviceDriverProperties.driverID = VK_DRIVER_ID_NVIDIA_PROPRIETARY
            major == Bits(V, 22, 10)
            minor == IF nvidia THEN Bits(V, 14, 8) ELSE Bits(V, 12, 10)
        IN  /\ nvidia => /\ Bits(N, 22, 10) = Bits(V, 22, 10)
                         /\ Bits(N, 12, 10) = Bits(V, 14, 8)
                         /\ Bits(N, 0, 12) = Bits(V, 6, 8)
            /\ ~nvidia => N = V
            /\ ~NonZero32(m_driverVersionOverride)
                   => GetDriverVersion
                          = FromNat(major * 100 + (IF minor > 99 THEN 99 ELSE minor))

\* NVIDIA 455.89 (raw 0x71D64000) is reported as 45589, where the generic split
\* of the same bits gives 455.356, reported as 45599: the decoders differ.
C6_Witness ==
    /\ pc = "idle"
    /\ ret = "true"
    /\ m_deviceDriverProperties.driverID = VK_DRIVER_ID_NVIDIA_PROPRIETARY
    /\ m_deviceProperties.driverVersion = U32(29142, 16384)
    /\ m_vkDriverVersion # m_deviceProperties.driverVersion
    /\ ~NonZero32(m_driverVersionOverride)
    /\ GetDriverVersion = FromNat(45589)
    /\ ReportedVersion(m_deviceProperties.driverVersion) = FromNat(45599)

-----------------------------------------------------------------------------
(* C7 *)

\* The lowest index of a device-local heap, 0 when there is none.
FirstDeviceLocal(heaps) ==
    LET local == {k \in 1..Len(heaps) : heaps[k].deviceLocal}
    IN  IF local = {} THEN 0 ELSE CHOOSE k \in local : \A j \in local : k <= j

\* C7: GetVRamSize returns the size of the first device-local heap divided by
\* 1024, exactly, for every 64-bit heap size, and 0 when no heap is device-local.
C7_VRamSizeIsExactQuotient ==
    pc = "idle" =>
        LET heaps == m_memoryProperties.memoryHeaps
            k == FirstDeviceLocal(heaps)
        IN  IF k = 0 THEN GetVRamSize = Zero32
            ELSE LET q == Div1024(heaps[k].size)
                 IN  q.w3 = 0 /\ q.w2 = 0 /\ GetVRamSize = U32(q.w1, q.w0)

-----------------------------------------------------------------------------
(* C8 *)

\* The displays 0 .. n - 1 follow the entries the list held at entry.
AppendedDisplays(n) ==
    /\ Len(outputs) = entryLen + n
    /\ \A k \in 1..n : outputs[entryLen + k] = k - 1

OutputsEnumerated ==
    pc \in {"FreeLibrary", "DeviceIdOverride", "SubsystemIdOverride",
            "DriverVersionOverride", "Thrown"} \/ ReturningTrue

LoopInvariant ==
    /\ pc = "EnumOutputs" => (i <= dxgiAdapter.nOutputs /\ AppendedDisplays(i))
    /\ OutputsEnumerated => AppendedDisplays(dxgiAdapter.nOutputs)

\* Each iteration queries the next index and appends one output after the
\* entries already there; the loop is left at the first exhausted index only.
LoopStep ==
    /\ (pc = "EnumOutputs" /\ pc' = "EnumOutputs")
           => (i < dxgiAdapter.nOutputs /\ i' = i + 1 /\ outputs' = Append(outputs, i))
    /\ (pc = "EnumOutputs" /\ pc' # "EnumOutputs")
           => (i = dxgiAdapter.nOutputs /\ pc' = "FreeLibrary" /\ outputs' = outputs)
    /\ pc # "EnumOutputs" => outputs' = outputs

\* C8: on a successful Initialize the displays are queried at indices 0, 1, 2, ...
\* up to the first exhausted index, one output is appended per display in that
\* order (the list grows by exactly the number of displays), and the loop ends.
C8_OutputEnumeration ==
    /\ []LoopInvariant
    /\ [][LoopStep]_vars
    /\ (pc = "EnumOutputs") ~> (pc = "FreeLibrary")

\* A second Initialize has appended two displays after the first call's one.
C8_Witness ==
    /\ pc = "FreeLibrary"
    /\ calls = 2
    /\ entryLen = 1
    /\ dxgiAdapter.nOutputs = 2
    /\ outputs = <<0, 0, 1>>

-----------------------------------------------------------------------------
(* C9 *)

ExpectedLog ==
    <<"InsertExtensions", "BuildChain", "GetProperties2", "GetMemoryProperties2",
      "DeviceIdOverride", "SubsystemIdOverride", "DriverVersionOverride">>

InLog(step) == \E k \in 1..Len(log) : log[k] = step

\* The extension a conditionally chained structure belongs to.
ExtensionOf(struct) ==
    CASE struct = "m_devicePciBusProperties" -> VK_EXT_PCI_BUS_INFO_EXTENSION_NAME
      [] struct = "m_deviceDriverProperties" -> VK_KHR_DRIVER_PROPERTIES_EXTENSION_NAME
      [] struct = "m_deviceFragmentShadingRateProperties"
             -> VK_KHR_FRAGMENT_SHADING_RATE_EXTENSION_NAME

\* C9: the extension names are stored in the support set before the property
\* chain is built and queried; an extension's structure is in the chain only if
\* the extension is in the support set; the property query and the memory query
\* run once each per successful Initialize, in that order, before the overrides.
C9_InitializeStepOrder ==
    /\ Len(log) <= Len(ExpectedLog)
    /\ log = SubSeq(ExpectedLog, 1, Len(log))
    /\ ReturningTrue => log = ExpectedLog
    /\ InLog("BuildChain") => Range(extensions) \subseteq m_deviceExtensions
    /\ \A k \in 1..Len(chain) :
           chain[k] # "m_deviceIdProperties"
               => ExtensionOf(chain[k]) \in m_deviceExtensions

\* A successful Initialize on Pascal: only m_deviceIdProperties is chained.
C9_Witness ==
    /\ ReturningTrue
    /\ calls = 1
    /\ log = ExpectedLog
    /\ dxgiAdapter.vkDevice = Pascal
    /\ chain = <<"m_deviceIdProperties">>
    /\ m_deviceExtensions = {VK_NV_CLIP_SPACE_W_SCALING_EXTENSION_NAME,
                             VK_NV_VIEWPORT_ARRAY2_EXTENSION_NAME}

-----------------------------------------------------------------------------
(* C10 *)

OverridesKept ==
    /\ (pc = "DeviceIdOverride" /\ deviceId' = Absent)
           => m_deviceIdOverride' = m_deviceIdOverride
    /\ (pc = "SubsystemIdOverride" /\ subsystemId' = Absent)
           => m_subsystemIdOverride' = m_subsystemIdOverride
    /\ (pc = "DriverVersionOverride" /\ driverVersion' = Absent)
           => m_driverVersionOverride' = m_driverVersionOverride
    /\ pc # "DeviceIdOverride" => m_deviceIdOverride' = m_deviceIdOverride
    /\ pc # "SubsystemIdOverride" => m_subsystemIdOverride' = m_subsystemIdOverride
    /\ pc # "DriverVersionOverride" => m_driverVersionOverride' = m_driverVersionOverride

ExtensionsAccumulate ==
    /\ m_deviceExtensions \subseteq m_deviceExtensions'
    /\ (pc = "InsertExtensions" /\ pc' = "BuildChain")
           => m_deviceExtensions' = m_deviceExtensions \cup Range(extensions)

\* C10: over any sequence of Initialize calls the extension set never loses a
\* name (a call that passes the enumeration leaves the union of the old set and
\* the enumerated names), and an override keeps its value through an Initialize
\* in which its environment variable is absent or empty.
C10_StateOnlyAccumulates ==
    [][ExtensionsAccumulate /\ OverridesKept]_vars

\* A second Initialize, on llvmpipe with no variable set, ends with the first
\* call's extension names and its device-id override still in place.
C10_Witness ==
    /\ ReturningTrue
    /\ calls = 2
    /\ dxgiAdapter.vkDevice = Llvmpipe
    /\ VK_NV_VIEWPORT_ARRAY2_EXTENSION_NAME \in m_deviceExtensions
    /\ deviceId = Absent
    /\ m_deviceIdOverride = U32(7040, 4318)

=============================================================================
